---- MODULE Spec2Model ----
(***************************************************************************)
(* A model of rorth2 (src/src/main.rs): a read-eval-print loop for a small *)
(* Forth-like language.  One line is uppercased, split into words,         *)
(* tokenized (parse), compiled (codegen) and executed (run) against the    *)
(* operand stack and the table of custom commands of one VirtualMachine.   *)
(*                                                                         *)
(* Strings are TLA+ strings; a character is a string of length one.        *)
(* Option<String> is a sequence of length 0 (None) or 1 (Some).            *)
(* A Rust panic ends the process: pc = "panicked", panic = its message.    *)
(***************************************************************************)
EXTENDS Integers, Sequences, FiniteSets, TLC

VARIABLES
    stack,            \* VirtualMachine.stack
    custom_commands,  \* VirtualMachine.custom_commands
    ip,               \* VirtualMachine.ip (0-based, as in the source)
    tokens,           \* the tokens execute got from parse for the current line
    instructions,     \* the argument of the top-level run
    should_exit,      \* the local of the top-level run
    pc,               \* "read" | "run" | "exited" | "panicked"
    panic,            \* the panic message, "none" while the process lives
    overflow_checks,  \* build profile: TRUE = debug (overflow panics), FALSE = release (wraps)
    buffer,           \* main's buffer as handed to execute (after to_uppercase)
    line,             \* history: the line last typed, as typed
    nlines,           \* history: number of lines read so far
    stack0,           \* history: the stack when the current line was read
    cmds0,            \* history: custom_commands when the current line was read
    invoked,          \* history: table indices whose body the last Push ran, in order
    nested_vm         \* history: the VirtualMachine each of those bodies left behind

vars == <<stack, custom_commands, ip, tokens, instructions, should_exit, pc, panic,
          overflow_checks, buffer, line, nlines, stack0, cmds0, invoked, nested_vm>>

(***************************************************************************)
(* Bounds of the model.                                                    *)
(***************************************************************************)
MaxLines == 2   \* lines read in one session (Spec)
MaxWords == 3   \* words of a generated line (SpecLine)
MaxDepth == 2   \* nesting depth of run inside run

(***************************************************************************)
(* i32                                                                     *)
(***************************************************************************)
MaxInt == 2147483647
MinInt == -2147483647 - 1

(***************************************************************************)
(* Strings                                                                 *)
(***************************************************************************)
QUOTE == "\""

char_at(s, i) == SubSeq(s, i, i)

starts_with(s, c) == Len(s) >= 1 /\ char_at(s, 1) = c

ends_with(s, c) == Len(s) >= 1 /\ char_at(s, Len(s)) = c

is_ascii_whitespace(c) == c \in {" ", "\t", "\n", "\f", "\r"}

Lower == <<"a","b","c","d","e","f","g","h","i","j","k","l","m",
           "n","o","p","q","r","s","t","u","v","w","x","y","z">>
Upper == <<"A","B","C","D","E","F","G","H","I","J","K","L","M",
           "N","O","P","Q","R","S","T","U","V","W","X","Y","Z">>

char_to_uppercase(c) ==
    IF \E k \in 1..26 : Lower[k] = c
    THEN Upper[CHOOSE k \in 1..26 : Lower[k] = c]
    ELSE c

RECURSIVE to_uppercase(_)
to_uppercase(s) ==
    IF Len(s) = 0 THEN ""
    ELSE char_to_uppercase(char_at(s, 1)) \o to_uppercase(Tail(s))

\* command.split_ascii_whitespace().collect::<Vec<&str>>()
RECURSIVE split_from(_, _, _, _)
split_from(s, i, cur, words) ==
    IF i > Len(s)
    THEN IF cur = "" THEN words ELSE Append(words, cur)
    ELSE IF is_ascii_whitespace(char_at(s, i))
         THEN split_from(s, i + 1, "", IF cur = "" THEN words ELSE Append(words, cur))
         ELSE split_from(s, i + 1, cur \o char_at(s, i), words)

split_ascii_whitespace(s) == split_from(s, 1, "", <<>>)

IsDigit(c) == c \in {"0","1","2","3","4","5","6","7","8","9"}

DigitVal(c) ==
    CASE c = "0" -> 0 [] c = "1" -> 1 [] c = "2" -> 2 [] c = "3" -> 3
      [] c = "4" -> 4 [] c = "5" -> 5 [] c = "6" -> 6 [] c = "7" -> 7
      [] c = "8" -> 8 [] c = "9" -> 9

DigitChar(d) == char_at("0123456789", d + 1)

ParseErr == [ok |-> FALSE, val |-> 0]

\* str::parse::<i32>: optional sign, at least one digit, checked accumulation
RECURSIVE parse_digits(_, _, _, _)
parse_digits(s, k, acc, neg) ==
    IF k > Len(s) THEN [ok |-> TRUE, val |-> acc]
    ELSE LET c == char_at(s, k) IN
         IF ~IsDigit(c) THEN ParseErr
         ELSE LET d == DigitVal(c) IN
              IF neg
              THEN IF acc < -(MaxInt \div 10) THEN ParseErr
                   ELSE IF acc * 10 < MinInt + d THEN ParseErr
                   ELSE parse_digits(s, k + 1, acc * 10 - d, neg)
              ELSE IF acc > MaxInt \div 10 THEN ParseErr
                   ELSE IF acc * 10 > MaxInt - d THEN ParseErr
                   ELSE parse_digits(s, k + 1, acc * 10 + d, neg)

parse_i32(s) ==
    IF Len(s) = 0 THEN ParseErr
    ELSE IF char_at(s, 1) \in {"+", "-"}
         THEN IF Len(s) = 1 THEN ParseErr
              ELSE parse_digits(s, 2, 0, char_at(s, 1) = "-")
         ELSE parse_digits(s, 1, 0, FALSE)

\* i32::to_string
RECURSIVE nonpos_to_string(_)
nonpos_to_string(n) ==
    LET d == (10 - (n % 10)) % 10     \* the last decimal digit of -n
        q == (n + d) \div 10          \* n / 10, truncated
    IN  IF q = 0 THEN DigitChar(d) ELSE nonpos_to_string(q) \o DigitChar(d)

i32_to_string(n) ==
    IF n < 0 THEN "-" \o nonpos_to_string(n) ELSE nonpos_to_string(-n)

(***************************************************************************)
(* Value, Instruction, Token, CustomCommand                                *)
(***************************************************************************)
None == <<>>
Some(x) == <<x>>

VInt(i) == [tag |-> "Int", int |-> i, str |-> "", ins |-> <<>>]
VStr(s) == [tag |-> "Str", int |-> 0, str |-> s, ins |-> <<>>]
VIns(b) == [tag |-> "Ins", int |-> 0, str |-> "", ins |-> <<b>>]

Instruction(op, vals) == [opcode |-> op, values |-> vals]

Token(id, itself) == [id |-> id, itself |-> itself]

CustomCommand(name, body) == [name |-> name, instructions |-> body]

\* Value::get_str
get_str(v) ==
    CASE v.tag = "Int" -> i32_to_string(v.int)
      [] v.tag = "Str" -> v.str
      [] v.tag = "Ins" -> "Instruction { opcode: " \o v.ins[1].opcode \o ", .. }"

(***************************************************************************)
(* VirtualMachine::parse: the tokenizer                                    *)
(***************************************************************************)
\* the inner scan of a quoted string: words[i+j] is read without a bound check
RECURSIVE scan_string(_, _, _, _)
scan_string(words, i, j, user_string) ==
    IF i + j > Len(words)
    THEN [panic |-> "index out of bounds", user_string |-> user_string]
    ELSE LET next_word == words[i + j] IN
         IF ~ends_with(next_word, QUOTE)
         THEN scan_string(words, i, j + 1, user_string \o " " \o next_word)
         ELSE [panic |-> "none", user_string |-> user_string \o " " \o next_word]

\* the token of a word that neither starts nor ends with a quote
word_token(word) ==
    IF parse_i32(word).ok THEN Token("Digit", Some(word))
    ELSE CASE word = "+" -> Token("Plus", None)
           [] word = "-" -> Token("Minus", None)
           [] word = "*" -> Token("Star", None)
           [] word = "/" -> Token("Slash", None)
           [] word = ":" -> Token("Colon", None)
           [] word = ";" -> Token("Semicolon", None)
           [] word \in {"DUP", "DROP", "SWAP", "OVER", "PRINT", "POP", "EXIT"}
                         -> Token("Text", Some(word))
           [] OTHER -> IF starts_with(word, QUOTE) /\ ends_with(word, QUOTE)
                       THEN Token("Text", Some(SubSeq(word, 2, Len(word) - 1)))
                       ELSE Token("Text", Some(word))

\* for i in 0..words.len() (i is 1-based here)
RECURSIVE parse_loop(_, _, _)
parse_loop(words, i, toks) ==
    IF i > Len(words) THEN [panic |-> "none", tokens |-> toks]
    ELSE LET word == words[i] IN
         IF starts_with(word, QUOTE)
         THEN IF ends_with(word, QUOTE)
              THEN parse_loop(words, i + 1, Append(toks, Token("Text", Some(word))))
              ELSE LET r == scan_string(words, i, 1, word) IN
                   IF r.panic # "none"
                   THEN [panic |-> r.panic, tokens |-> toks]
                   ELSE parse_loop(words, i + 1,
                                   Append(toks, Token("Text", Some(r.user_string))))
         ELSE IF ends_with(word, QUOTE)
              THEN parse_loop(words, i + 1, toks)
              ELSE parse_loop(words, i + 1, Append(toks, word_token(word)))

parse(command) == parse_loop(split_ascii_whitespace(command), 1, <<>>)

(***************************************************************************)
(* VirtualMachine::codegen: the code generator                             *)
(***************************************************************************)
Reserved ==
    [DUP |-> "Dup", DROP |-> "Drop", SWAP |-> "Swap", OVER |-> "Over",
     PRINT |-> "PrintStack", POP |-> "Pop", EXIT |-> "Exit"]

push_op(g, op, vals) == [g EXCEPT !.opcodes = Append(@, Instruction(op, vals))]

\* one iteration of the loop over the tokens; g = [opcodes, declaration_mode, definition_mode]
codegen_token(g, tok) ==
    CASE tok.id = "Plus"  -> push_op(g, "Add", <<>>)
      [] tok.id = "Minus" -> push_op(g, "Sub", <<>>)
      [] tok.id = "Star"  -> push_op(g, "Mul", <<>>)
      [] tok.id = "Slash" -> push_op(g, "Div", <<>>)
      [] tok.id = "Colon" -> [g EXCEPT !.declaration_mode = TRUE]
      [] tok.id = "Semicolon" ->
            push_op([g EXCEPT !.definition_mode = FALSE], "EndDefine", <<>>)
      [] tok.id = "Digit" ->
            push_op(g, "Push", <<VInt(parse_i32(tok.itself[1]).val)>>)
      [] tok.id = "Text" ->
            IF tok.itself = None THEN g
            ELSE LET itself == tok.itself[1] IN
                 IF itself \in DOMAIN Reserved
                 THEN push_op(g, Reserved[itself], <<>>)
                 ELSE IF g.declaration_mode
                 THEN [push_op(g, "BeginDefine", <<VStr(itself)>>)
                          EXCEPT !.declaration_mode = FALSE, !.definition_mode = TRUE]
                 ELSE IF g.definition_mode
                 THEN LET idx == Len(g.opcodes) IN
                      [g EXCEPT !.opcodes[idx].values = Append(@, VStr(itself))]
                 ELSE push_op(g, "Push", <<VStr(itself)>>)

RECURSIVE codegen_loop(_, _, _)
codegen_loop(toks, k, g) ==
    IF k > Len(toks) THEN g
    ELSE codegen_loop(toks, k + 1, codegen_token(g, toks[k]))

\* mutant: PrintTop is appended also after a final PrintStack
codegen_finish_always(opcodes) ==
    IF Len(opcodes) > 0
    THEN Append(opcodes, Instruction("PrintTop", <<>>))
    ELSE opcodes

\* the post-pass of codegen: print the top unless the line ends with PRINT
codegen_finish(opcodes) ==
    IF Len(opcodes) > 0 /\ opcodes[Len(opcodes)].opcode # "PrintStack"
    THEN Append(opcodes, Instruction("PrintTop", <<>>))
    ELSE opcodes

codegen(toks) ==
    codegen_finish(codegen_loop(toks, 1,
        [opcodes |-> <<>>, declaration_mode |-> FALSE, definition_mode |-> FALSE]).opcodes)

(***************************************************************************)
(* impl Add/Sub/Mul/Div for Value: i32 arithmetic.  An overflowing + - *   *)
(* panics when the build has overflow checks and wraps otherwise; a        *)
(* division by zero and MinInt / -1 panic in every build; an operand that  *)
(* is not an Int reaches unimplemented!().                                 *)
(***************************************************************************)
NOT_IMPLEMENTED == "not implemented"
UNWRAP_NONE == "called Option::unwrap() on a None value"
EXPECTED_INSTRUCTION == "Expected an Instruction"
STACK_OVERFLOW == "stack overflow"

add_overflows(x, y) == (y > 0 /\ x > MaxInt - y) \/ (y < 0 /\ x < MinInt - y)

wrapping_add(x, y) ==
    IF ~add_overflows(x, y) THEN x + y
    ELSE IF y > 0 THEN (x - MaxInt - 1) + (y - MaxInt - 1)
    ELSE (x + MaxInt + 1) + (y + MaxInt + 1)

sub_overflows(x, y) == (y < 0 /\ x > MaxInt + y) \/ (y > 0 /\ x < MinInt + y)

wrapping_sub(x, y) ==
    IF ~sub_overflows(x, y) THEN x - y
    ELSE IF y < 0 THEN (x - MaxInt - 1) - (y + MaxInt + 1)
    ELSE (x + MaxInt + 1) - (y - MaxInt - 1)

mul_overflows(x, y) ==
    IF x = 0 \/ y = 0 THEN FALSE
    ELSE IF x > 0 /\ y > 0 THEN x > MaxInt \div y
    ELSE IF x > 0 /\ y < 0 THEN y < (MinInt + x - 1) \div x
    ELSE IF x < 0 /\ y > 0 THEN x < (MinInt + y - 1) \div y
    ELSE IF x = MinInt \/ y = MinInt THEN TRUE
    ELSE (-x) > MaxInt \div (-y)

\* the low and the high 16 bits of the two's complement of x
lo16(x) == x % 65536
hi16(x) == (x \div 65536) % 65536

\* u * v for 16-bit u, v, as <<high part, low 16 bits>>, without leaving 32 bits
mul16(u, v) ==
    LET p1 == u * (v \div 256)
        p0 == u * (v % 256)
        low == (p1 % 256) * 256 + p0
    IN  <<(p1 \div 256) + (low \div 65536), low % 65536>>

\* x * y modulo 2^32, as a signed 32-bit integer
wrapping_mul(x, y) ==
    IF ~mul_overflows(x, y) THEN x * y
    ELSE LET ll == mul16(lo16(x), lo16(y))
             hl == mul16(hi16(x), lo16(y))
             lh == mul16(lo16(x), hi16(y))
             high == (ll[1] + hl[2] + lh[2]) % 65536
         IN  (IF high >= 32768 THEN high - 65536 ELSE high) * 65536 + ll[2]

\* i32 division truncates toward zero (y # 0, not MinInt / -1)
truncating_div(x, y) ==
    IF y > 0
    THEN IF x < 0 /\ x % y # 0 THEN (x \div y) + 1 ELSE x \div y
    ELSE IF y = MinInt THEN (IF x = MinInt THEN 1 ELSE 0)
    ELSE LET p == -y IN
         IF x < 0 /\ x % p # 0 THEN -((x \div p) + 1) ELSE -(x \div p)

ArithOk(v) == [panic |-> "none", val |-> v]
ArithPanic(msg) == [panic |-> msg, val |-> VInt(0)]

value_add(this, other) ==
    IF this.tag = "Int" /\ other.tag = "Int"
    THEN IF add_overflows(this.int, other.int) /\ overflow_checks
         THEN ArithPanic("attempt to add with overflow")
         ELSE ArithOk(VInt(wrapping_add(this.int, other.int)))
    ELSE ArithPanic(NOT_IMPLEMENTED)

value_sub(this, other) ==
    IF this.tag = "Int" /\ other.tag = "Int"
    THEN IF sub_overflows(this.int, other.int) /\ overflow_checks
         THEN ArithPanic("attempt to subtract with overflow")
         ELSE ArithOk(VInt(wrapping_sub(this.int, other.int)))
    ELSE ArithPanic(NOT_IMPLEMENTED)

value_mul(this, other) ==
    IF this.tag = "Int" /\ other.tag = "Int"
    THEN IF mul_overflows(this.int, other.int) /\ overflow_checks
         THEN ArithPanic("attempt to multiply with overflow")
         ELSE ArithOk(VInt(wrapping_mul(this.int, other.int)))
    ELSE ArithPanic(NOT_IMPLEMENTED)

value_div(this, other) ==
    IF this.tag = "Int" /\ other.tag = "Int"
    THEN IF other.int = 0 THEN ArithPanic("attempt to divide by zero")
         ELSE IF this.int = MinInt /\ other.int = -1
         THEN ArithPanic("attempt to divide with overflow")
         ELSE ArithOk(VInt(truncating_div(this.int, other.int)))
    ELSE ArithPanic(NOT_IMPLEMENTED)

(***************************************************************************)
(* VirtualMachine::run, one match arm per operator.  vm is the record      *)
(* [stack, custom_commands, ip, instance]; instance tells the objects      *)
(* apart: 0 is the VirtualMachine main owns, clone() makes the next one.   *)
(* A result is [vm, panic, exit, invoked, nested].                         *)
(***************************************************************************)
Res(vm, msg) == [vm |-> vm, panic |-> msg, exit |-> FALSE, invoked |-> <<>>, nested |-> <<>>]

Top(st) == st[Len(st)]
Pop(st) == SubSeq(st, 1, Len(st) - 1)

\* let b = self.stack.pop().unwrap(); let a = self.stack.pop().unwrap();
pop2(vm) ==
    IF Len(vm.stack) = 0 THEN [panic |-> UNWRAP_NONE, vm |-> vm, a |-> VInt(0), b |-> VInt(0)]
    ELSE LET b == Top(vm.stack)
             vm1 == [vm EXCEPT !.stack = Pop(@)]
         IN  IF Len(vm1.stack) = 0
             THEN [panic |-> UNWRAP_NONE, vm |-> vm1, a |-> VInt(0), b |-> b]
             ELSE [panic |-> "none", vm |-> [vm1 EXCEPT !.stack = Pop(@)],
                   a |-> Top(vm1.stack), b |-> b]

\* self.stack.push(r); self.ip += 1, or the panic of the operator
push_result(vm, r) ==
    IF r.panic # "none" THEN Res(vm, r.panic)
    ELSE Res([vm EXCEPT !.stack = Append(@, r.val), !.ip = @ + 1], "none")

op_Add(vm) ==
    LET p == pop2(vm) IN
    IF p.panic # "none" THEN Res(p.vm, p.panic) ELSE push_result(p.vm, value_add(p.a, p.b))

\* mutant: the operands the other way round, b - a
op_Sub_swapped(vm) ==
    LET p == pop2(vm) IN
    IF p.panic # "none" THEN Res(p.vm, p.panic) ELSE push_result(p.vm, value_sub(p.b, p.a))

op_Sub(vm) ==
    LET p == pop2(vm) IN
    IF p.panic # "none" THEN Res(p.vm, p.panic) ELSE push_result(p.vm, value_sub(p.a, p.b))

op_Mul(vm) ==
    LET p == pop2(vm) IN
    IF p.panic # "none" THEN Res(p.vm, p.panic) ELSE push_result(p.vm, value_mul(p.a, p.b))

op_Div(vm) ==
    LET p == pop2(vm) IN
    IF p.panic # "none" THEN Res(p.vm, p.panic) ELSE push_result(p.vm, value_div(p.a, p.b))

op_Dup(vm) ==
    IF Len(vm.stack) = 0 THEN Res(vm, UNWRAP_NONE)
    ELSE LET a == Top(vm.stack) IN
         Res([vm EXCEPT !.stack = Append(Append(Pop(@), a), a), !.ip = @ + 1], "none")

\* let _ = self.stack.pop(): no unwrap, an empty stack stays empty
op_Drop(vm) ==
    Res([vm EXCEPT !.stack = IF Len(@) = 0 THEN @ ELSE Pop(@), !.ip = @ + 1], "none")

op_Swap(vm) ==
    LET p == pop2(vm) IN
    IF p.panic # "none" THEN Res(p.vm, p.panic)
    ELSE Res([p.vm EXCEPT !.stack = Append(Append(@, p.b), p.a), !.ip = @ + 1], "none")

\* mutant: the copy is taken of the top, not of the value below it
op_Over_top(vm) ==
    LET p == pop2(vm) IN
    IF p.panic # "none" THEN Res(p.vm, p.panic)
    ELSE Res([p.vm EXCEPT !.stack = Append(Append(Append(@, p.a), p.b), p.b),
                          !.ip = @ + 1], "none")

op_Over(vm) ==
    LET p == pop2(vm) IN
    IF p.panic # "none" THEN Res(p.vm, p.panic)
    ELSE Res([p.vm EXCEPT !.stack = Append(Append(Append(@, p.a), p.b), p.a),
                          !.ip = @ + 1], "none")

op_Pop(vm) ==
    Res([vm EXCEPT !.stack = IF Len(@) = 0 THEN @ ELSE Pop(@), !.ip = @ + 1], "none")

\* println!, stdout is not part of the state
op_PrintStack(vm) == Res([vm EXCEPT !.ip = @ + 1], "none")

op_PrintTop(vm) == Res([vm EXCEPT !.ip = @ + 1], "none")

\* mutant: Exit leaves should_exit alone
op_Exit_unset(vm) == Res([vm EXCEPT !.ip = @ + 1], "none")

op_Exit(vm) == [Res([vm EXCEPT !.ip = @ + 1], "none") EXCEPT !.exit = TRUE]

\* the catch-all arm: EndDefine has no arm of its own
op_EndDefine(vm) == Res(vm, NOT_IMPLEMENTED)

\* for i in 1..ins.values.len(): only Value::Ins operands are accepted
RECURSIVE define_body(_, _, _)
define_body(values, i, body) ==
    IF i > Len(values) THEN [panic |-> "none", body |-> body]
    ELSE IF values[i].tag = "Ins"
         THEN define_body(values, i + 1, Append(body, values[i].ins[1]))
         ELSE [panic |-> EXPECTED_INSTRUCTION, body |-> body]

\* mutant: the pointer moves past one instruction more than the BeginDefine
op_BeginDefine_skip(vm, ins) ==
    LET name == ins.values[1]
        vm1 == [vm EXCEPT !.ip = @ + 1]
        d == define_body(ins.values, 2, <<>>)
    IN  IF d.panic # "none" THEN Res(vm1, d.panic)
        ELSE Res([vm1 EXCEPT !.custom_commands = Append(@, CustomCommand(get_str(name), d.body)),
                             !.ip = @ + Len(ins.values)], "none")

op_BeginDefine(vm, ins) ==
    LET name == ins.values[1]
        vm1 == [vm EXCEPT !.ip = @ + 1]
        d == define_body(ins.values, 2, <<>>)
    IN  IF d.panic # "none" THEN Res(vm1, d.panic)
        ELSE Res([vm1 EXCEPT !.custom_commands = Append(@, CustomCommand(get_str(name), d.body)),
                             !.ip = @ + (Len(ins.values) - 1)], "none")

\* #[derive(Clone)] for VirtualMachine: a new object with equal fields
clone(vm) == [vm EXCEPT !.instance = @ + 1]

\* the indices of the table entries named name, in table order
matching(cmds, name) ==
    SelectSeq([k \in 1..Len(cmds) |-> k], LAMBDA k : cmds[k].name = name)

\* the table entries a Push of ins invokes
push_hits(vm, ins) == matching(vm.custom_commands, get_str(ins.values[1]))

\* mutant: the bodies run on self, not on a clone: self.ip is what the last body left
op_Push_shared_ip(vm, ins, depth, runs) ==
    LET val == ins.values[1]
        hits == push_hits(vm, ins)
        is_cmd == hits # <<>>
        bad == {j \in 1..Len(hits) : runs[j].panic # "none"}
    IN  IF is_cmd /\ depth >= MaxDepth THEN Res(vm, STACK_OVERFLOW)
        ELSE IF bad # {} THEN Res(vm, runs[CHOOSE j \in bad : \A i \in bad : j <= i].panic)
        ELSE [Res([vm EXCEPT !.stack = IF is_cmd THEN @ ELSE Append(@, val),
                             !.ip = (IF is_cmd THEN runs[Len(hits)].vm.ip ELSE @) + 1], "none")
                 EXCEPT !.invoked = hits,
                        !.nested = [j \in 1..Len(hits) |-> runs[j].vm]]

\* for cmd in self.custom_commands.iter(): the body of every entry with the name is
\* run, each on a clone of self; runs[j] is the outcome of the j-th of these runs.
\* Without a match the value is pushed.
op_Push(vm, ins, depth, runs) ==
    LET val == ins.values[1]
        hits == push_hits(vm, ins)
        is_cmd == hits # <<>>
        bad == {j \in 1..Len(hits) : runs[j].panic # "none"}
    IN  IF is_cmd /\ depth >= MaxDepth THEN Res(vm, STACK_OVERFLOW)
        ELSE IF bad # {} THEN Res(vm, runs[CHOOSE j \in bad : \A i \in bad : j <= i].panic)
        ELSE [Res([vm EXCEPT !.stack = IF is_cmd THEN @ ELSE Append(@, val),
                             !.ip = @ + 1], "none")
                 EXCEPT !.invoked = hits,
                        !.nested = [j \in 1..Len(hits) |-> runs[j].vm]]

\* match ins.opcode, the arms that do not call run
run_ins(vm, ins) ==
    CASE ins.opcode = "Add" -> op_Add(vm)
      [] ins.opcode = "Sub" -> op_Sub(vm)
      [] ins.opcode = "Mul" -> op_Mul(vm)
      [] ins.opcode = "Div" -> op_Div(vm)
      [] ins.opcode = "Dup" -> op_Dup(vm)
      [] ins.opcode = "Drop" -> op_Drop(vm)
      [] ins.opcode = "Swap" -> op_Swap(vm)
      [] ins.opcode = "Over" -> op_Over(vm)
      [] ins.opcode = "BeginDefine" -> op_BeginDefine(vm, ins)
      [] ins.opcode = "Pop" -> op_Pop(vm)
      [] ins.opcode = "PrintStack" -> op_PrintStack(vm)
      [] ins.opcode = "PrintTop" -> op_PrintTop(vm)
      [] ins.opcode = "Exit" -> op_Exit(vm)
      [] OTHER -> op_EndDefine(vm)

\* run, called on a clone from the Push arm (the top-level call is the actions
\* below): self.ip = 0 is set by the caller here
RECURSIVE run_loop(_, _, _, _)
run_loop(vm, instrs, exit, depth) ==
    IF vm.ip < Len(instrs)
    THEN LET ins == instrs[vm.ip + 1]
             r == IF ins.opcode = "Push"
                  THEN op_Push(vm, ins, depth,
                           [j \in 1..(IF depth >= MaxDepth THEN 0 ELSE Len(push_hits(vm, ins))) |->
                               run_loop([clone(vm) EXCEPT !.ip = 0],
                                        vm.custom_commands[push_hits(vm, ins)[j]].instructions,
                                        FALSE, depth + 1)])
                  ELSE run_ins(vm, ins)
         IN  IF r.panic # "none" THEN [r EXCEPT !.exit = exit]
             ELSE run_loop(r.vm, instrs, exit \/ r.exit, depth)
    ELSE [Res(vm, "none") EXCEPT !.exit = exit]

\* run as a function of self and its argument: self.ip = 0, should_exit = false, loop
run(vm, instrs) == run_loop([vm EXCEPT !.ip = 0], instrs, FALSE, 0)

\* self.clone().run(&cmd.instructions) for every entry a Push of ins invokes
nested_runs(vm, ins, depth) ==
    [j \in 1..Len(push_hits(vm, ins)) |->
        run_loop([clone(vm) EXCEPT !.ip = 0],
                 vm.custom_commands[push_hits(vm, ins)[j]].instructions, FALSE, depth + 1)]

(***************************************************************************)
(* The lines typed at the prompt                                           *)
(***************************************************************************)
\* a session of a few lines: every construct of the language, and its failures
SessionLines ==
    { "", "1", "X", "1 2", "5 DUP", "1 2 SWAP", "1 2 OVER", "1 DROP", "5 dup",
      "2 3 +", "7 2 -", "3 4 *", "7 2 /", "-7 2 /", "5 0 /", "X 1 +",
      "2147483647 1 +", "-2147483648 -1 /",
      "+", "DUP", "SWAP", "DROP", "POP", "1 POP", "PRINT", "1 2 PRINT",
      "EXIT", "5 EXIT", "EXIT 5", "EXIT +",
      ": FOO", "FOO", "FOO 7", "7 FOO", ": FOO : FOO", ": FOO ;", ": FOO BAR", ": FOO 1 BAR",
      ": FOO DUP", ": FOO 1",
      ": SQUARE DUP * ; 4 SQUARE", "4 : SQUARE DUP * ; SQUARE",
      "\"HELLO", "\"HELLO WORLD\"", "\"A B C\"", "\"HI\"", ": GREET \"HELLO WORLD\" ;",
      "1  2\t+" }

Vocabulary ==
    { "+", ":", ";", "DUP", "DROP", "OVER", "PRINT", "EXIT", "1", "X", "\"A", "B\"" }

RECURSIVE Join(_)
Join(ws) ==
    IF Len(ws) = 0 THEN ""
    ELSE IF Len(ws) = 1 THEN ws[1]
    ELSE ws[1] \o " " \o Join(Tail(ws))

ShortLines == { Join(ws) : ws \in UNION { [1..n -> Vocabulary] : n \in 0..MaxWords } }

IntPool == { MinInt, -7, -1, 0, 1, 2, 3, MaxInt }

ArithOps == { "+", "-", "*", "/" }

ArithLine(a, b, op) == i32_to_string(a) \o " " \o i32_to_string(b) \o " " \o op

ArithLines == { ArithLine(a, b, op) : a \in IntPool, b \in IntPool, op \in ArithOps }

AnyLines == ShortLines \cup ArithLines \cup SessionLines

(***************************************************************************)
(* main: the read-eval-print loop                                          *)
(***************************************************************************)
Self == [stack |-> stack, custom_commands |-> custom_commands, ip |-> ip, instance |-> 0]

Init ==
    /\ stack = <<>>
    /\ custom_commands = <<>>
    /\ ip = 0
    /\ tokens = <<>>
    /\ instructions = <<>>
    /\ should_exit = FALSE
    /\ pc = "read"
    /\ panic = "none"
    /\ overflow_checks \in BOOLEAN
    /\ buffer = ""
    /\ line = ""
    /\ nlines = 0
    /\ stack0 = <<>>
    /\ cmds0 = <<>>
    /\ invoked = <<>>
    /\ nested_vm = <<>>

\* mutant: run without its first statement, self.ip keeps the value of the line before
Execute_stale_ip(typed) ==
    /\ pc = "read"
    /\ LET command == to_uppercase(buffer \o typed \o "\n")
           p == parse(command)
       IN  /\ buffer' = command
           /\ IF p.panic # "none"
              THEN /\ pc' = "panicked"
                   /\ panic' = p.panic
                   /\ UNCHANGED <<ip, tokens, instructions, should_exit>>
              ELSE /\ pc' = "run"
                   /\ tokens' = p.tokens
                   /\ instructions' = codegen(p.tokens)
                   /\ ip' = ip
                   /\ should_exit' = FALSE
                   /\ UNCHANGED panic
    /\ line' = typed
    /\ nlines' = nlines + 1
    /\ stack0' = stack
    /\ cmds0' = custom_commands
    /\ invoked' = <<>>
    /\ nested_vm' = <<>>
    /\ UNCHANGED <<stack, custom_commands, overflow_checks>>

\* read_line, to_uppercase, then execute up to the first instruction of run
Execute(typed) ==
    /\ pc = "read"
    /\ LET command == to_uppercase(buffer \o typed \o "\n")
           p == parse(command)
       IN  /\ buffer' = command
           /\ IF p.panic # "none"
              THEN /\ pc' = "panicked"
                   /\ panic' = p.panic
                   /\ UNCHANGED <<ip, tokens, instructions, should_exit>>
              ELSE /\ pc' = "run"
                   /\ tokens' = p.tokens
                   /\ instructions' = codegen(p.tokens)
                   /\ ip' = 0
                   /\ should_exit' = FALSE
                   /\ UNCHANGED panic
    /\ line' = typed
    /\ nlines' = nlines + 1
    /\ stack0' = stack
    /\ cmds0' = custom_commands
    /\ invoked' = <<>>
    /\ nested_vm' = <<>>
    /\ UNCHANGED <<stack, custom_commands, overflow_checks>>

ReadLine == nlines < MaxLines /\ \E typed \in SessionLines : Execute(typed)

ReadAnyLine == nlines = 0 /\ \E typed \in AnyLines : Execute(typed)

\* the top-level run is at an instruction with this opcode
Fetch(opcode) ==
    /\ pc = "run"
    /\ ip < Len(instructions)
    /\ instructions[ip + 1].opcode = opcode

Ins == instructions[ip + 1]

\* the effect of one match arm on self, or the panic that ends the process
Commit(r) ==
    /\ stack' = r.vm.stack
    /\ custom_commands' = r.vm.custom_commands
    /\ ip' = r.vm.ip
    /\ should_exit' = (should_exit \/ r.exit)
    /\ panic' = r.panic
    /\ pc' = IF r.panic # "none" THEN "panicked" ELSE "run"
    /\ UNCHANGED <<tokens, instructions, overflow_checks, buffer, line, nlines,
                   stack0, cmds0>>

RunAdd == Fetch("Add") /\ Commit(op_Add(Self)) /\ UNCHANGED <<invoked, nested_vm>>

RunSub == Fetch("Sub") /\ Commit(op_Sub(Self)) /\ UNCHANGED <<invoked, nested_vm>>

RunMul == Fetch("Mul") /\ Commit(op_Mul(Self)) /\ UNCHANGED <<invoked, nested_vm>>

RunDiv == Fetch("Div") /\ Commit(op_Div(Self)) /\ UNCHANGED <<invoked, nested_vm>>

RunDup == Fetch("Dup") /\ Commit(op_Dup(Self)) /\ UNCHANGED <<invoked, nested_vm>>

RunDrop == Fetch("Drop") /\ Commit(op_Drop(Self)) /\ UNCHANGED <<invoked, nested_vm>>

RunSwap == Fetch("Swap") /\ Commit(op_Swap(Self)) /\ UNCHANGED <<invoked, nested_vm>>

RunOver == Fetch("Over") /\ Commit(op_Over(Self)) /\ UNCHANGED <<invoked, nested_vm>>

RunBeginDefine ==
    Fetch("BeginDefine") /\ Commit(op_BeginDefine(Self, Ins)) /\ UNCHANGED <<invoked, nested_vm>>

RunEndDefine ==
    Fetch("EndDefine") /\ Commit(op_EndDefine(Self)) /\ UNCHANGED <<invoked, nested_vm>>

RunPush ==
    /\ Fetch("Push")
    /\ LET r == op_Push(Self, Ins, 0, nested_runs(Self, Ins, 0)) IN
           /\ Commit(r)
           /\ invoked' = r.invoked
           /\ nested_vm' = r.nested

RunPop == Fetch("Pop") /\ Commit(op_Pop(Self)) /\ UNCHANGED <<invoked, nested_vm>>

RunPrintStack ==
    Fetch("PrintStack") /\ Commit(op_PrintStack(Self)) /\ UNCHANGED <<invoked, nested_vm>>

RunPrintTop ==
    Fetch("PrintTop") /\ Commit(op_PrintTop(Self)) /\ UNCHANGED <<invoked, nested_vm>>

RunExit == Fetch("Exit") /\ Commit(op_Exit(Self)) /\ UNCHANGED <<invoked, nested_vm>>

\* mutant: main makes a new VirtualMachine for every line
Return_fresh_vm ==
    /\ pc = "run"
    /\ ip >= Len(instructions)
    /\ pc' = IF should_exit THEN "exited" ELSE "read"
    /\ buffer' = IF should_exit THEN buffer ELSE ""
    /\ stack' = <<>>
    /\ custom_commands' = <<>>
    /\ UNCHANGED <<ip, tokens, instructions, should_exit, panic,
                   overflow_checks, line, nlines, stack0, cmds0, invoked, nested_vm>>

\* run returns should_exit; main breaks out of its loop or clears the buffer
Return ==
    /\ pc = "run"
    /\ ip >= Len(instructions)
    /\ pc' = IF should_exit THEN "exited" ELSE "read"
    /\ buffer' = IF should_exit THEN buffer ELSE ""
    /\ UNCHANGED <<stack, custom_commands, ip, tokens, instructions, should_exit, panic,
                   overflow_checks, line, nlines, stack0, cmds0, invoked, nested_vm>>

RunStep ==
    \/ RunAdd \/ RunSub \/ RunMul \/ RunDiv
    \/ RunDup \/ RunDrop \/ RunSwap \/ RunOver
    \/ RunBeginDefine \/ RunEndDefine \/ RunPush \/ RunPop
    \/ RunPrintStack \/ RunPrintTop \/ RunExit
    \/ Return

Next == ReadLine \/ RunStep

Spec == Init /\ [][Next]_vars

\* run is sequential code: its loop goes on until it breaks or panics
FairSpec == Spec /\ WF_vars(RunStep)

\* one line typed into a fresh session
NextLine == ReadAnyLine \/ RunStep

SpecLine == Init /\ [][NextLine]_vars

(***************************************************************************)
(* Properties                                                              *)
(***************************************************************************)
\* run has returned for the line last typed
LineDone == nlines > 0 /\ pc \in {"read", "exited"}

Panicked == pc = "panicked"

ArithCases == { <<a, b, op>> : a \in IntPool, b \in IntPool, op \in ArithOps }

ArithInput == [c \in ArithCases |-> ArithLine(c[1], c[2], c[3])]

\* the exact result of a op b is a signed 32-bit integer
ExactFits(a, b, op) ==
    CASE op = "+" -> IF b >= 0 THEN a <= MaxInt - b ELSE a >= MinInt - b
      [] op = "-" -> IF b >= 0 THEN a >= MinInt + b ELSE a <= MaxInt + b
      [] op = "*" ->
            IF a = 0 \/ b = 0 THEN TRUE
            ELSE IF (a > 0) = (b > 0)
                 THEN a # MinInt /\ b # MinInt
                      /\ (IF a > 0 THEN a ELSE -a) <= MaxInt \div (IF b > 0 THEN b ELSE -b)
                 ELSE LET n == IF a < 0 THEN a ELSE b
                          p == IF a < 0 THEN b ELSE a
                      IN  p = 1 \/ n >= -(((MaxInt - (p - 1)) \div p) + 1)
      [] op = "/" -> ~(a = MinInt /\ b = -1)

NegAbs(x) == IF x > 0 THEN -x ELSE x

\* r is a op b; for / the quotient rounded toward zero: a = r*b + rem, |rem| < |b|,
\* rem zero or of the sign of a
IsExact(a, b, op, r) ==
    CASE op = "+" -> r = a + b
      [] op = "-" -> r = a - b
      [] op = "*" -> r = a * b
      [] op = "/" -> /\ NegAbs(r) >= NegAbs(a)
                     /\ LET rem == a - r * b IN
                            /\ NegAbs(rem) > NegAbs(b)
                            /\ (rem = 0 \/ (rem < 0) = (a < 0))

TopIs(a, b, op) ==
    /\ Len(stack) >= 1
    /\ Top(stack).tag = "Int"
    /\ IsExact(a, b, op, Top(stack).int)

\* C1 (as amended): for signed 32-bit a, b with b # 0 whose exact result a op b is a
\* signed 32-bit integer, the line "a b op" does not panic and leaves a op b on top
\* of the stack, a the left operand and b the right one, / rounding toward zero.
C1_ArithmeticInRange ==
    \A c \in ArithCases :
        (line = ArithInput[c] /\ c[2] # 0 /\ ExactFits(c[1], c[2], c[3]))
            => /\ ~Panicked
               /\ LineDone => TopIs(c[1], c[2], c[3])

C1_Witness ==
    /\ line = ArithLine(-7, 2, "/")
    /\ LineDone
    /\ stack = <<VInt(-3)>>

\* C1 (as stated): for every a, b with b # 0 the line leaves exactly a op b.
C1_Original ==
    \A c \in ArithCases :
        (line = ArithInput[c] /\ c[2] # 0)
            => /\ ~Panicked
               /\ LineDone => (ExactFits(c[1], c[2], c[3]) /\ TopIs(c[1], c[2], c[3]))

\* C2: ": SQUARE DUP * ; 4 SQUARE" on a fresh VirtualMachine completes with stack [16].
C2_Claim ==
    (line = ": SQUARE DUP * ; 4 SQUARE" /\ nlines = 1)
        => /\ ~Panicked
           /\ LineDone => stack = <<VInt(16)>>

\* C3: the body of a word invoked by Push runs against the caller's own stack and
\* word table (the VirtualMachine main owns), and what it leaves is what the caller
\* continues with.
C3_Claim ==
    \A j \in 1..Len(nested_vm) :
        /\ nested_vm[j].instance = Self.instance
        /\ (pc = "run" /\ j = Len(nested_vm)) =>
               (stack = nested_vm[j].stack
                /\ custom_commands = nested_vm[j].custom_commands)

\* C4: Dup, Swap, Over and Drop on a stack that holds their operands do not panic and
\* rearrange only the top: s+[a] -> s+[a,a], s+[a,b] -> s+[b,a], s+[a,b] -> s+[a,b,a],
\* s+[a] -> s; and the four example lines leave what the claim says above stack0.
C4_Step ==
    /\ (Fetch("Dup") /\ Len(stack) >= 1) =>
           (pc' = "run" /\ stack' = Pop(stack) \o <<Top(stack), Top(stack)>>)
    /\ (Fetch("Swap") /\ Len(stack) >= 2) =>
           (pc' = "run" /\ stack' = Pop(Pop(stack)) \o <<Top(stack), Top(Pop(stack))>>)
    /\ (Fetch("Over") /\ Len(stack) >= 2) =>
           (pc' = "run"
            /\ stack' = Pop(Pop(stack)) \o <<Top(Pop(stack)), Top(stack), Top(Pop(stack))>>)
    /\ (Fetch("Drop") /\ Len(stack) >= 1) =>
           (pc' = "run" /\ stack' = Pop(stack))

C4_Examples ==
    LineDone =>
        /\ line = "5 DUP" => stack = stack0 \o <<VInt(5), VInt(5)>>
        /\ line = "1 2 SWAP" => stack = stack0 \o <<VInt(2), VInt(1)>>
        /\ line = "1 2 OVER" => stack = stack0 \o <<VInt(1), VInt(2), VInt(1)>>
        /\ line = "1 DROP" => stack = stack0

C4_StackOps == [][C4_Step]_vars /\ []C4_Examples

C4_Witness ==
    /\ line = "1 2 OVER"
    /\ LineDone
    /\ stack0 = <<VInt(1), VInt(2)>>
    /\ stack = <<VInt(1), VInt(2), VInt(1), VInt(2), VInt(1)>>

\* C5: a line that divides by zero ends with the session back at the prompt and the
\* stack as it was when the line was read.
C5_Claim ==
    (line = "5 0 /" /\ pc # "run") => (pc = "read" /\ stack = stack0)

\* C6: a stack underflow ends the current line only: after "+" on an empty stack the
\* session is back at the prompt with the stack and the word table of the lines before.
C6_Claim ==
    (line = "+" /\ stack0 = <<>> /\ pc # "run")
        => (pc = "read" /\ stack = stack0 /\ custom_commands = cmds0)

\* C7: parse never reads a word past the end of the word list: no line ends the
\* process with an index out of bounds.
C7_Claim == ~(Panicked /\ panic = "index out of bounds")

\* C8: a quoted string of k >= 2 words becomes exactly one text token carrying the
\* words joined by single spaces, without the quotes.
QuotedSpans ==
    { <<"\"HELLO WORLD\"", "HELLO WORLD">>, <<"\"A B\"", "A B">>,
      <<"\"A B C\"", "A B C">>, <<"\"A X B\"", "A X B">> }

C8_Claim ==
    \A q \in QuotedSpans :
        (line = q[1] /\ pc = "run") => tokens = <<Token("Text", Some(q[2]))>>

\* C9: a Push of a name defined more than once runs only the body of the entry
\* registered last under that name.
C9_Claim ==
    \A j \in 1..Len(invoked) :
        \A k \in 1..Len(custom_commands) :
            custom_commands[k].name = custom_commands[invoked[j]].name => k <= invoked[j]

\* C10: run returns true exactly when the sequence it ran holds an Exit; Exit itself
\* only advances the instruction pointer, the run goes on; main stops reading after
\* the first run that returned true, and only then.
C10_Step ==
    /\ Fetch("Exit") => (pc' = "run" /\ ip' = ip + 1 /\ stack' = stack)
    /\ (pc = "run" /\ ip >= Len(instructions)) =>
           /\ should_exit = (\E i \in 1..Len(instructions) : instructions[i].opcode = "Exit")
           /\ pc' = IF should_exit THEN "exited" ELSE "read"
    /\ pc # "exited"
    /\ nlines' # nlines => (pc = "read" /\ ~should_exit)

C10_Exit == [][C10_Step]_vars

C10_Witness ==
    /\ line = "EXIT 5"
    /\ pc = "exited"
    /\ should_exit
    /\ stack = stack0 \o <<VInt(5)>>

\* the opcodes vector of codegen before its post-pass, for the tokens of the line
Emitted ==
    codegen_loop(tokens, 1,
        [opcodes |-> <<>>, declaration_mode |-> FALSE, definition_mode |-> FALSE]).opcodes

Last(seq) == seq[Len(seq)]

\* C11: the compiled sequence is empty or ends with PrintStack or PrintTop: it is the
\* emitted opcodes followed by one PrintTop exactly when these are not empty and do not
\* end with PrintStack, and the emitted opcodes alone otherwise (nothing is appended to
\* an empty sequence); no token emits a PrintTop.
C11_PostPass ==
    pc = "run" =>
        /\ instructions = <<>> \/ Last(instructions).opcode \in {"PrintStack", "PrintTop"}
        /\ \A i \in 1..Len(Emitted) : Emitted[i].opcode # "PrintTop"
        /\ IF Emitted # <<>> /\ Last(Emitted).opcode # "PrintStack"
           THEN instructions = Append(Emitted, Instruction("PrintTop", <<>>))
           ELSE instructions = Emitted

C11_Witness ==
    /\ line = "1 DROP"
    /\ pc = "run"
    /\ ip = 0
    /\ instructions = <<Instruction("Push", <<VInt(1)>>), Instruction("Drop", <<>>),
                        Instruction("PrintTop", <<>>)>>

\* the VirtualMachine as it was when the line was read
Start == [stack |-> stack0, custom_commands |-> cmds0, ip |-> 0, instance |-> 0]

\* C12: what a run leaves is a function of the instruction sequence, the stack and the
\* word table it started with (in one build of the program): the stack, the word
\* table, the value returned and a panic are those of run applied to these three, so
\* two runs of one sequence from equal stacks and tables, fresh ones included, end alike.
C12_Deterministic ==
    LET r == run(Start, instructions) IN
        /\ LineDone =>
               /\ r.panic = "none"
               /\ stack = r.vm.stack
               /\ custom_commands = r.vm.custom_commands
               /\ (pc = "exited") = r.exit
        /\ (Panicked /\ panic # "index out of bounds") =>
               /\ r.panic = panic
               /\ stack = r.vm.stack

C12_Witness ==
    /\ nlines = 1
    /\ line = "1 2 OVER"
    /\ LineDone
    /\ stack = <<VInt(1), VInt(2), VInt(1)>>
    /\ run(Start, instructions).vm.stack = stack

\* the words a definition body is made of, other than names
DefinitionBodyWords == { "+", "DUP", "DROP", "OVER", "PRINT", "EXIT", "1" }

\* C13: an operator, built-in word or literal that follows ": X" is captured into the
\* BeginDefine instruction of X: the top-level program of ": X w" holds no instruction
\* for w, only the BeginDefine (and what the post-pass appends), and w is its operand.
C13_Claim ==
    \A w \in DefinitionBodyWords :
        (line = ": X " \o w /\ pc = "run") =>
            /\ \A i \in 1..Len(instructions) :
                   instructions[i].opcode \in {"BeginDefine", "PrintTop"}
            /\ Len(instructions[1].values) = 2

\* C14: a name met in definition mode goes to the operands of the BeginDefine that
\* opened the definition, whatever was emitted since: no other instruction gets an
\* operand beyond the one a Push is made with.
C14_Claim ==
    pc = "run" =>
        /\ \A i \in 1..Len(instructions) :
               instructions[i].opcode # "BeginDefine" =>
                   Len(instructions[i].values) = (IF instructions[i].opcode = "Push" THEN 1 ELSE 0)
        /\ line = ": FOO 1 BAR" =>
               instructions[1] = Instruction("BeginDefine", <<VStr("FOO"), VStr("BAR")>>)

\* C15: the word table changes only while a line with a closing ';' runs, and the
\* completed definition ": FOO ;" ends with FOO registered and the session at the prompt.
C15_Claim ==
    /\ custom_commands # cmds0 =>
           \E k \in 1..Len(tokens) : tokens[k].id = "Semicolon"
    /\ (line = ": FOO ;" /\ nlines = 1 /\ pc # "run") =>
           (pc = "read" /\ custom_commands = <<CustomCommand("FOO", <<>>)>>)

\* bodies of several lengths, to apply the Push arm of run to
SampleBodies ==
    { <<>>,
      <<Instruction("Push", <<VInt(1)>>)>>,
      <<Instruction("Push", <<VInt(1)>>), Instruction("Dup", <<>>)>>,
      <<Instruction("Push", <<VInt(1)>>), Instruction("Push", <<VInt(2)>>),
        Instruction("Add", <<>>)>> }

\* C16: a Push at index i that invokes a word and returns leaves the outer run at
\* i + 1 in the same sequence; each body ran with a pointer of its own, from 0 to the
\* length of that body, on another VirtualMachine than self.
C16_Step ==
    (Fetch("Push") /\ push_hits(Self, Ins) # <<>> /\ pc' = "run") =>
        /\ ip' = ip + 1
        /\ instructions' = instructions
        /\ Len(nested_vm') = Len(push_hits(Self, Ins))
        /\ \A j \in 1..Len(nested_vm') :
               /\ nested_vm'[j].ip = Len(custom_commands[invoked'[j]].instructions)
               /\ nested_vm'[j].instance # Self.instance

\* the same of the Push arm applied, at any point of a session, to a word with a body
\* of each sample length (the lines of a session register empty bodies only)
C16_AnyBody ==
    \A body \in SampleBodies :
        LET vm == [Self EXCEPT !.custom_commands = <<CustomCommand("W", body)>>]
            ins == Instruction("Push", <<VStr("W")>>)
            r == op_Push(vm, ins, 0, nested_runs(vm, ins, 0))
        IN  /\ r.panic = "none"
            /\ r.vm.ip = vm.ip + 1
            /\ r.nested[1].ip = Len(body)

C16_ScopedIp == [][C16_Step]_vars /\ []C16_AnyBody

C16_Witness ==
    /\ line = "7 FOO"
    /\ cmds0 = <<CustomCommand("FOO", <<>>)>>
    /\ pc = "run"
    /\ ip = 2
    /\ invoked = <<1>>
    /\ nested_vm[1].ip = 0
    /\ stack = stack0 \o <<VInt(7)>>

\* C17: Drop and Pop on an empty stack fail as the other opcodes do on a stack that is
\* too short: the line "DROP" or "POP" read with an empty stack never runs to its end.
C17_Claim ==
    (line \in {"DROP", "POP"} /\ stack0 = <<>> /\ pc # "run") => Panicked

\* C18: for all signed 32-bit a, b (b # 0 for /) the line "a b op" does not panic and
\* ends with an integer pushed, also when the exact result is outside the 32-bit range.
C18_Claim ==
    \A c \in ArithCases :
        (line = ArithInput[c] /\ (c[3] = "/" => c[2] # 0)) =>
            /\ ~Panicked
            /\ LineDone => (Len(stack) = 1 /\ Top(stack).tag = "Int")

IsPrefix(p, q) == Len(p) <= Len(q) /\ SubSeq(q, 1, Len(p)) = p

\* C19: one stack and one word table serve the whole session: the return of run and
\* the reading of the next line leave both as they are, so a line starts with what the
\* line before ended with; and no step removes or changes an entry of the word table.
C19_Step ==
    /\ (pc = "run" /\ pc' \in {"read", "exited"}) =>
           (stack' = stack /\ custom_commands' = custom_commands)
    /\ nlines' # nlines =>
           (stack' = stack /\ custom_commands' = custom_commands
            /\ stack0' = stack /\ cmds0' = custom_commands)
    /\ IsPrefix(custom_commands, custom_commands')

C19_LineStart == (pc = "run" /\ ip = 0) => (stack = stack0 /\ custom_commands = cmds0)

C19_Persistence == [][C19_Step]_vars /\ []C19_LineStart

C19_Witness ==
    /\ nlines = 2
    /\ line = "7 FOO"
    /\ pc = "run"
    /\ ip = 0
    /\ stack0 = <<VInt(1)>>
    /\ cmds0 = <<CustomCommand("FOO", <<>>)>>
    /\ stack = stack0
    /\ custom_commands = cmds0

\* C20: a top-level run starts at index 0, each step that does not panic moves the
\* pointer to the next index of the same sequence, after a BeginDefine and a Push as
\* after any other instruction, run returns only with the pointer at the end of the
\* sequence, and every run ends: it returns or it panics.
C20_Step ==
    /\ (pc = "read" /\ pc' = "run") => ip' = 0
    /\ (pc = "run" /\ ip < Len(instructions) /\ pc' = "run") =>
           (ip' = ip + 1 /\ instructions' = instructions)
    /\ (pc = "run" /\ pc' \in {"read", "exited"}) => ip = Len(instructions)

C20_RunsInOrder == [][C20_Step]_vars /\ ((pc = "run") ~> (pc # "run"))

C20_Witness ==
    /\ line = ": FOO 1"
    /\ nlines = 1
    /\ pc = "read"
    /\ ip = 3
    /\ Len(instructions) = 3
    /\ custom_commands = <<CustomCommand("FOO", <<>>)>>
    /\ stack = <<VInt(1)>>

====
